---- MODULE Spec2Model ----
(***************************************************************************)
(* Unit Circle Snake Game (unit_circle_snake.py): the trigonometry tables, *)
(* the question and food generators, the movement step of game_loop and    *)
(* the screens main() switches between.                                    *)
(*                                                                         *)
(* The board is scaled down: SCREEN_WIDTH and SCREEN_HEIGHT are bounds of  *)
(* the model (the program uses 640 x 480, a 32 x 20 grid); the grid is     *)
(* derived from them as in the source.  Calls of the random module are     *)
(* nondeterministic choices: positions (random.randint) are explored in    *)
(* full; of the draws of values of one round (random.choice for the        *)
(* question, random.sample and random.shuffle for the food values) the     *)
(* game loop follows one outcome, the one DrawIndex names, and the         *)
(* properties of the generators range over all of them.                    *)
(*                                                                         *)
(* Spec is the game played with the settings main() starts with;           *)
(* SpecScreens adds the settings menu and the quit event; SpecFoods and    *)
(* SpecQuestion are generate_foods and generate_question called on their   *)
(* own, over the snakes and over all the settings they can be given.       *)
(***************************************************************************)
EXTENDS Integers, Sequences, FiniteSets, TLC

VARIABLES state, settings, snake, direction, lives, score,
          func, question_str, correct_answer, foods, correct_pickups,
          checkboxes, drawn_base, drawn_quadrant, angle_latex

vars == <<state, settings, snake, direction, lives, score,
          func, question_str, correct_answer, foods, correct_pickups,
          checkboxes, drawn_base, drawn_quadrant, angle_latex>>

\* the checkboxes of settings_menu and, for a call of generate_question
\* that is looked at on its own, its locals base_angle, quadrant and
\* angle_latex
menu_vars == <<checkboxes, drawn_base, drawn_quadrant, angle_latex>>

(* ------------------------------ bounds -------------------------------- *)
SCREEN_WIDTH == 200
SCREEN_HEIGHT == 280
MaxScore == 1
MaxKeys == 2
DrawIndex == 1
MaxUnchecked == 1

(* ------------------------- program constants --------------------------- *)
CELL_SIZE == 20
TOP_MARGIN == 80
GRID_WIDTH == SCREEN_WIDTH \div CELL_SIZE
GRID_HEIGHT == (SCREEN_HEIGHT - TOP_MARGIN) \div CELL_SIZE
HIT_DISTANCE == 30
START_LIVES == 3
FOOD_MARGIN == 3
FOOD_SPACING == 3
MAX_DISTRACTORS == 3

(* ------------------------------ helpers -------------------------------- *)
Abs(n) == IF n < 0 THEN -n ELSE n

Min(a, b) == IF a < b THEN a ELSE b

Range(s) == {s[i] : i \in 1..Len(s)}

RECURSIVE Nth(_, _)
\* the k-th element of the set S in a fixed order (the last one when S has
\* fewer than k)
Nth(S, k) ==
    LET x == CHOOSE y \in S : TRUE
    IN IF k <= 1 \/ S = {x} THEN x ELSE Nth(S \ {x}, k - 1)

RECURSIVE SetToSeq(_)
\* the elements of a finite set as a list, in some order
SetToSeq(S) ==
    IF S = {} THEN <<>>
    ELSE LET x == CHOOSE y \in S : TRUE IN <<x>> \o SetToSeq(S \ {x})

(* ------------------------- trigonometry model -------------------------- *)
\* base angles are pi/den, named by den as in angle_fractions
FUNCS == <<"sin", "cos", "tan">>

QUADRANTS == <<1, 2, 3, 4>>

base_vals ==
    [sin |-> [d \in {6, 4, 3, 2} |->
                CASE d = 6 -> "\\frac{1}{2}"
                  [] d = 4 -> "\\frac{\\sqrt{2}}{2}"
                  [] d = 3 -> "\\frac{\\sqrt{3}}{2}"
                  [] d = 2 -> "1"],
     cos |-> [d \in {6, 4, 3, 2} |->
                CASE d = 6 -> "\\frac{\\sqrt{3}}{2}"
                  [] d = 4 -> "\\frac{\\sqrt{2}}{2}"
                  [] d = 3 -> "\\frac{1}{2}"
                  [] d = 2 -> "0"],
     tan |-> [d \in {6, 4, 3} |->
                CASE d = 6 -> "\\frac{1}{\\sqrt{3}}"
                  [] d = 4 -> "1"
                  [] d = 3 -> "\\sqrt{3}"]]

angle_fractions == [d \in {6, 4, 3, 2} |-> <<1, d>>]

\* a rendering that keeps the coefficient 1
get_full_angle_latex_KeepsOne(base_angle, quadrant) ==
    IF base_angle = 2
    THEN IF quadrant \in {1, 2} THEN "\\frac{\\pi}{2}" ELSE "\\frac{3\\pi}{2}"
    ELSE LET num == angle_fractions[base_angle][1]
             den == angle_fractions[base_angle][2]
             n == CASE quadrant = 1 -> num
                    [] quadrant = 2 -> den - num
                    [] quadrant = 3 -> den + num
                    [] quadrant = 4 -> 2 * den - num
         IN "\\frac{" \o ToString(n) \o "\\pi" \o "}{" \o ToString(den) \o "}"

get_full_angle_latex(base_angle, quadrant) ==
    IF base_angle = 2
    THEN IF quadrant \in {1, 2} THEN "\\frac{\\pi}{2}" ELSE "\\frac{3\\pi}{2}"
    ELSE LET num == angle_fractions[base_angle][1]
             den == angle_fractions[base_angle][2]
             n == CASE quadrant = 1 -> num
                    [] quadrant = 2 -> den - num
                    [] quadrant = 3 -> den + num
                    [] quadrant = 4 -> 2 * den - num
         IN "\\frac{" \o (IF n # 1 THEN ToString(n) \o "\\pi" ELSE "\\pi")
                \o "}{" \o ToString(den) \o "}"

\* a sign rule without the special case of the value "0"
get_adjusted_answer_SignedZero(f, base_angle, quadrant) ==
    LET value_str == base_vals[f][base_angle]
    IN IF f = "sin"
       THEN (IF quadrant \in {3, 4} THEN "-" ELSE "") \o value_str
       ELSE IF f = "cos"
            THEN (IF quadrant \in {2, 3} THEN "-" ELSE "") \o value_str
       ELSE (IF quadrant \in {2, 4} THEN "-" ELSE "") \o value_str

get_adjusted_answer(f, base_angle, quadrant) ==
    LET value_str == base_vals[f][base_angle]
    IN IF value_str = "0" THEN "0"
       ELSE IF f = "sin"
            THEN (IF quadrant \in {3, 4} THEN "-" ELSE "") \o value_str
       ELSE IF f = "cos"
            THEN (IF quadrant \in {2, 3} THEN "-" ELSE "") \o value_str
       ELSE (IF quadrant \in {2, 4} THEN "-" ELSE "") \o value_str

(* --------------------------- the random module ------------------------- *)
\* random.choice(seq): any element
random_choice(S) == S

\* random.sample(population, k): k distinct elements as a list; one
\* arrangement of each selection is kept, since generate_foods shuffles the
\* list it builds from the sample
random_sample(S, k) == {SetToSeq(T) : T \in {U \in SUBSET S : Cardinality(U) = k}}

\* random.shuffle(x): any rearrangement of the list
random_shuffle(seq) ==
    {[i \in 1..Len(seq) |-> seq[p[i]]] : p \in Permutations(1..Len(seq))}

\* random.randint(a, b): any integer of a..b
random_randint(a, b) == a..b

(* --------------------------- question generator ------------------------ *)
DefaultSettings ==
    [functions |-> [f \in Range(FUNCS) |-> TRUE],
     quadrants |-> [q \in Range(QUADRANTS) |-> TRUE]]

\* the question of one outcome of the three draws of generate_question
Question(f, base_angle, quadrant) ==
    [func |-> f,
     question_str |-> f \o "(" \o get_full_angle_latex(base_angle, quadrant) \o ")",
     correct_answer |-> get_adjusted_answer(f, base_angle, quadrant)]

\* a fallback that keeps the enabled quadrants when no function is enabled
EnabledSelection_KeepsQuadrants(s) ==
    LET enabled_funcs == {f \in Range(FUNCS) : s.functions[f]}
        enabled_quads == {q \in Range(QUADRANTS) : s.quadrants[q]}
    IN [funcs |-> IF enabled_funcs = {} \/ enabled_quads = {}
                  THEN {"sin"} ELSE enabled_funcs,
        quads |-> IF enabled_quads = {} THEN {1} ELSE enabled_quads]

\* a selection that draws the quadrant from all four
EnabledSelection_AllQuadrants(s) ==
    LET enabled_funcs == {f \in Range(FUNCS) : s.functions[f]}
        enabled_quads == {q \in Range(QUADRANTS) : s.quadrants[q]}
    IN IF enabled_funcs = {} \/ enabled_quads = {}
       THEN [funcs |-> {"sin"}, quads |-> {1}]
       ELSE [funcs |-> enabled_funcs, quads |-> Range(QUADRANTS)]

\* the function and quadrant lists generate_question draws from
EnabledSelection(s) ==
    LET enabled_funcs == {f \in Range(FUNCS) : s.functions[f]}
        enabled_quads == {q \in Range(QUADRANTS) : s.quadrants[q]}
    IN IF enabled_funcs = {} \/ enabled_quads = {}
       THEN [funcs |-> {"sin"}, quads |-> {1}]
       ELSE [funcs |-> enabled_funcs, quads |-> enabled_quads]

\* the (func, question_str, correct_answer) generate_question can return
generate_question(s) ==
    LET e == EnabledSelection(s)
    IN UNION {UNION {{Question(f, b, q) : q \in random_choice(e.quads)}
                     : b \in random_choice(DOMAIN base_vals[f])}
              : f \in random_choice(e.funcs)}

(* ----------------------------- food generator -------------------------- *)
FoodCells ==
    random_randint(FOOD_MARGIN, GRID_WIDTH - FOOD_MARGIN - 1)
        \X random_randint(FOOD_MARGIN, GRID_HEIGHT - FOOD_MARGIN - 1)

\* a spacing that is one cell short
Conflict_Narrow(cell, food) ==
    /\ Abs(cell[1] - food.pos[1]) < FOOD_SPACING - 1
    /\ Abs(cell[2] - food.pos[2]) < FOOD_SPACING - 1

\* a candidate cell is rejected when it lies within the spacing of a placed food
Conflict(cell, food) ==
    /\ Abs(cell[1] - food.pos[1]) < FOOD_SPACING
    /\ Abs(cell[2] - food.pos[2]) < FOOD_SPACING

\* a placement that never looks at the snake
get_random_food_position_AnyCell(snake_positions, current_foods) ==
    {c \in FoodCells :
        \A i \in 1..Len(current_foods) : ~Conflict(c, current_foods[i])}

\* the cells get_random_food_position can return: its loop ends only by
\* drawing one of them
get_random_food_position(snake_positions, current_foods) ==
    {c \in FoodCells :
        /\ c \notin Range(snake_positions)
        /\ \A i \in 1..Len(current_foods) : ~Conflict(c, current_foods[i])}

\* the set possible_answers of generate_foods
possible_answers(f) ==
    {get_adjusted_answer(f, b, q) : b \in DOMAIN base_vals[f], q \in Range(QUADRANTS)}

\* distractors sampled from a pool that still holds the answer
FoodValues_KeepsAnswer(f, answer) ==
    LET pool == possible_answers(f)
        num_distractors == Min(MAX_DISTRACTORS, Cardinality(pool))
    IN UNION {random_shuffle(distractors \o <<answer>>)
              : distractors \in random_sample(pool, num_distractors)}

\* distractors alone, the answer is not appended
FoodValues_NoAnswer(f, answer) ==
    LET pool == possible_answers(f) \ {answer}
        num_distractors == Min(MAX_DISTRACTORS, Cardinality(pool))
    IN UNION {random_shuffle(distractors)
              : distractors \in random_sample(pool, num_distractors)}

\* the shuffled list food_values of generate_foods
FoodValues(f, answer) ==
    LET pool == possible_answers(f) \ {answer}
        num_distractors == Min(MAX_DISTRACTORS, Cardinality(pool))
    IN UNION {random_shuffle(distractors \o <<answer>>)
              : distractors \in random_sample(pool, num_distractors)}

RECURSIVE PlaceFoods(_, _, _)
\* the placement loop of generate_foods over the values still to place
PlaceFoods(values, snake_positions, placed) ==
    IF values = <<>> THEN {placed}
    ELSE UNION {PlaceFoods(Tail(values), snake_positions,
                           Append(placed, [pos |-> p, value |-> Head(values)]))
                : p \in get_random_food_position(snake_positions, placed)}

\* the food lists generate_foods can return; a call whose placement loop has
\* no acceptable cell left never returns and contributes nothing
generate_foods(f, answer, snake_positions) ==
    UNION {PlaceFoods(values, snake_positions, <<>>) : values \in FoodValues(f, answer)}

(* ------------------------- the draws explored -------------------------- *)
\* the list of food values followed for one call of generate_foods
ExploredValues(f, answer) == {Nth(FoodValues(f, answer), DrawIndex)}

\* the outcome followed of the value draws of one round: a question
\* generate_question can return with a list of food values generate_foods
\* can draw for it
RoundsOf(s) ==
    LET q == Nth(generate_question(s), DrawIndex)
    IN {[question |-> q, values |-> v] : v \in ExploredValues(q.func, q.correct_answer)}

\* RoundsOf, tabulated over the settings
ExploredRoundsTable ==
    {<<s, RoundsOf(s)>> :
        s \in [functions : [Range(FUNCS) -> BOOLEAN],
               quadrants : [Range(QUADRANTS) -> BOOLEAN]]}

ExploredRounds(s) == (CHOOSE entry \in ExploredRoundsTable : entry[1] = s)[2]

(* ------------------------------ collisions ----------------------------- *)
\* a pickup range of twice the distance
food_collision_Wide(snake_cell, food_cell) ==
    LET snake_x == snake_cell[1] * CELL_SIZE + CELL_SIZE \div 2
        snake_y == snake_cell[2] * CELL_SIZE + TOP_MARGIN + CELL_SIZE \div 2
        food_x == food_cell[1] * CELL_SIZE + CELL_SIZE \div 2
        food_y == food_cell[2] * CELL_SIZE + TOP_MARGIN + CELL_SIZE \div 2
        dx == snake_x - food_x
        dy == snake_y - food_y
    IN dx * dx + dy * dy < 4 * HIT_DISTANCE * HIT_DISTANCE

food_collision(snake_cell, food_cell) ==
    LET snake_x == snake_cell[1] * CELL_SIZE + CELL_SIZE \div 2
        snake_y == snake_cell[2] * CELL_SIZE + TOP_MARGIN + CELL_SIZE \div 2
        food_x == food_cell[1] * CELL_SIZE + CELL_SIZE \div 2
        food_y == food_cell[2] * CELL_SIZE + TOP_MARGIN + CELL_SIZE \div 2
        dx == snake_x - food_x
        dy == snake_y - food_y
    IN dx * dx + dy * dy < HIT_DISTANCE * HIT_DISTANCE

\* bounds that let the head pass one cell beyond the right and bottom edges
HitsWall_OffByOne(new_head) ==
    \/ new_head[1] < 0
    \/ new_head[1] > GRID_WIDTH
    \/ new_head[2] < 0
    \/ new_head[2] > GRID_HEIGHT

HitsWall(new_head) ==
    \/ new_head[1] < 0
    \/ new_head[1] >= GRID_WIDTH
    \/ new_head[2] < 0
    \/ new_head[2] >= GRID_HEIGHT

\* a check against the body without its tail cell
HitsSelf_SkipsTail(new_head, body) ==
    new_head \in Range(SubSeq(body, 1, Len(body) - 1))

HitsSelf(new_head, body) == new_head \in Range(body)

\* the index of the first food the head hits, 0 when it hits none
FoodEaten(new_head, fs) ==
    LET hit == {i \in 1..Len(fs) : food_collision(new_head, fs[i].pos)}
    IN IF hit = {} THEN 0 ELSE CHOOSE i \in hit : \A j \in hit : i <= j

\* a removal that always takes the first food of the list
RemoveFood_First(fs, food) == Tail(fs)

\* list.remove(x): the list without its first element equal to x
RemoveFood(fs, food) ==
    LET at == {i \in 1..Len(fs) : fs[i] = food}
        k == CHOOSE i \in at : \A j \in at : i <= j
    IN IF at = {} THEN fs
       ELSE [i \in 1..(Len(fs) - 1) |-> IF i < k THEN fs[i] ELSE fs[i + 1]]

\* a pop that removes nothing
PopTail_Keeps(body) == body

\* snake.pop()
PopTail(body) == SubSeq(body, 1, Len(body) - 1)

(* ------------------------------- controls ------------------------------ *)
KEYS == {"K_UP", "K_DOWN", "K_LEFT", "K_RIGHT"}

\* one KEYDOWN event of game_loop
ApplyKey(dir, key) ==
    IF key = "K_UP" /\ dir # <<0, 1>> THEN <<0, -1>>
    ELSE IF key = "K_DOWN" /\ dir # <<0, -1>> THEN <<0, 1>>
    ELSE IF key = "K_LEFT" /\ dir # <<1, 0>> THEN <<-1, 0>>
    ELSE IF key = "K_RIGHT" /\ dir # <<-1, 0>> THEN <<1, 0>>
    ELSE dir

RECURSIVE ProcessEvents(_, _)
\* the directions the event loop of one tick can leave, from dir, over the
\* lists of at most n KEYDOWN events pygame.event.get() can return
ProcessEvents(dir, n) ==
    IF n = 0 THEN {dir}
    ELSE {dir} \cup UNION {ProcessEvents(ApplyKey(dir, key), n - 1) : key \in KEYS}

(* ----------------------------- pickup effects -------------------------- *)
\* a score that is not incremented
ScoreAfterCorrect_Same(points) == points

\* a score that counts a correct pickup twice
ScoreAfterCorrect_Double(points) == points + 2

\* score += 1
ScoreAfterCorrect(points) == points + 1

\* a wrong pickup that costs no life
LivesAfterWrong_Same(hearts) == hearts

\* lives -= 1
LivesAfterWrong(hearts) == hearts - 1

\* a test that lets the round go on with no life left
OutOfLives_Strict(hearts) == hearts < 0

\* if lives <= 0: running = False
OutOfLives(hearts) == hearts <= 0

(* -------------------------------- screens ------------------------------ *)
InitialSnake == <<<<GRID_WIDTH \div 2, GRID_HEIGHT \div 2>>>>

InitialDirection == <<1, 0>>

\* no game_loop is running: its locals do not exist
NoSession ==
    /\ snake = <<>>
    /\ direction = <<0, 0>>
    /\ lives = 0
    /\ score = 0
    /\ func = ""
    /\ question_str = ""
    /\ correct_answer = ""
    /\ foods = <<>>
    /\ correct_pickups = 0

\* no call of generate_question is looked at on its own
NoCall ==
    /\ drawn_base = 0
    /\ drawn_quadrant = 0
    /\ angle_latex = ""

Init ==
    /\ state = "MENU"
    /\ settings = DefaultSettings
    /\ checkboxes = DefaultSettings
    /\ NoSession
    /\ NoCall

\* main_menu: a click on the play button; game_loop starts
PlayClick ==
    /\ state = "MENU"
    /\ state' = "PLAYING"
    /\ snake' = InitialSnake
    /\ direction' = InitialDirection
    /\ lives' = START_LIVES
    /\ score' = 0
    /\ correct_pickups' = 0
    /\ \E round \in ExploredRounds(settings) :
         /\ func' = round.question.func
         /\ question_str' = round.question.question_str
         /\ correct_answer' = round.question.correct_answer
         /\ foods' \in PlaceFoods(round.values, InitialSnake, <<>>)
    /\ UNCHANGED <<settings, menu_vars>>

\* one iteration of the loop of game_loop; dir is the direction its event
\* loop leaves
GameTick(dir) ==
    /\ state = "PLAYING"
    /\ LET new_head == <<snake[1][1] + dir[1], snake[1][2] + dir[2]>>
           grown == <<new_head>> \o snake
           eaten == FoodEaten(new_head, foods)
       IN /\ direction' = dir
          /\ IF HitsWall(new_head) \/ HitsSelf(new_head, snake)
             THEN /\ state' = "GAMEOVER"
                  /\ UNCHANGED <<snake, lives, score, func, question_str,
                                 correct_answer, foods, correct_pickups>>
             ELSE IF eaten = 0
             THEN /\ snake' = PopTail(grown)
                  /\ UNCHANGED <<state, lives, score, func, question_str,
                                 correct_answer, foods, correct_pickups>>
             ELSE IF foods[eaten].value = correct_answer
             THEN /\ score < MaxScore
                  /\ score' = ScoreAfterCorrect(score)
                  /\ correct_pickups' = correct_pickups + 1
                  /\ snake' = grown
                  /\ \E round \in ExploredRounds(settings) :
                       /\ func' = round.question.func
                       /\ question_str' = round.question.question_str
                       /\ correct_answer' = round.question.correct_answer
                       /\ foods' \in PlaceFoods(round.values, grown, <<>>)
                  /\ UNCHANGED <<state, lives>>
             ELSE /\ lives' = LivesAfterWrong(lives)
                  /\ foods' = RemoveFood(foods, foods[eaten])
                  /\ snake' = PopTail(grown)
                  /\ state' = IF OutOfLives(lives') THEN "GAMEOVER" ELSE "PLAYING"
                  /\ UNCHANGED <<score, func, question_str, correct_answer,
                                 correct_pickups>>
    /\ UNCHANGED <<settings, menu_vars>>

Tick == \E dir \in ProcessEvents(direction, MaxKeys) : GameTick(dir)

\* a GameOver screen that starts the next session at once
Acknowledge_ToPlaying ==
    /\ state = "GAMEOVER"
    /\ state' = "PLAYING"
    /\ snake' = InitialSnake
    /\ direction' = InitialDirection
    /\ lives' = START_LIVES
    /\ score' = 0
    /\ correct_pickups' = 0
    /\ UNCHANGED <<func, question_str, correct_answer, foods, settings, menu_vars>>

\* game_over: K_RETURN returns to main(), which goes back to the menu
Acknowledge ==
    /\ state = "GAMEOVER"
    /\ state' = "MENU"
    /\ snake' = <<>>
    /\ direction' = <<0, 0>>
    /\ lives' = 0
    /\ score' = 0
    /\ func' = ""
    /\ question_str' = ""
    /\ correct_answer' = ""
    /\ foods' = <<>>
    /\ correct_pickups' = 0
    /\ UNCHANGED <<settings, menu_vars>>

Next == PlayClick \/ Tick \/ Acknowledge

Spec == Init /\ [][Next]_vars

(* ------------------ the screens with the settings menu ---------------- *)
\* the boxes of a settings value that are not checked
Unchecked(s) ==
    Cardinality({f \in Range(FUNCS) : ~s.functions[f]})
        + Cardinality({q \in Range(QUADRANTS) : ~s.quadrants[q]})

\* main_menu: a click on the settings button; settings_menu builds its
\* checkboxes from the settings
SettingsClick ==
    /\ state = "MENU"
    /\ state' = "SETTINGS"
    /\ checkboxes' = settings
    /\ UNCHANGED <<settings, snake, direction, lives, score, func, question_str,
                   correct_answer, foods, correct_pickups, drawn_base,
                   drawn_quadrant, angle_latex>>

\* settings_menu: a click on one checkbox toggles it (the hitboxes do not
\* overlap)
ToggleClick ==
    /\ state = "SETTINGS"
    /\ \/ \E f \in Range(FUNCS) :
            checkboxes' = [checkboxes EXCEPT !.functions[f] = ~checkboxes.functions[f]]
       \/ \E q \in Range(QUADRANTS) :
            checkboxes' = [checkboxes EXCEPT !.quadrants[q] = ~checkboxes.quadrants[q]]
    /\ Unchecked(checkboxes') <= MaxUnchecked
    /\ UNCHANGED <<state, settings, snake, direction, lives, score, func,
                   question_str, correct_answer, foods, correct_pickups,
                   drawn_base, drawn_quadrant, angle_latex>>

\* settings_menu: a click on the back button copies the checkboxes into the
\* settings and returns to main(), which goes back to the menu
BackClick ==
    /\ state = "SETTINGS"
    /\ state' = "MENU"
    /\ settings' = checkboxes
    /\ UNCHANGED <<snake, direction, lives, score, func, question_str,
                   correct_answer, foods, correct_pickups, menu_vars>>

\* a pygame.QUIT event on any screen: pygame.quit(); sys.exit().  Nothing
\* of the process is kept
Quit ==
    /\ state \in {"MENU", "SETTINGS", "PLAYING", "GAMEOVER"}
    /\ state' = "QUIT"
    /\ settings' = DefaultSettings
    /\ checkboxes' = DefaultSettings
    /\ snake' = <<>>
    /\ direction' = <<0, 0>>
    /\ lives' = 0
    /\ score' = 0
    /\ func' = ""
    /\ question_str' = ""
    /\ correct_answer' = ""
    /\ foods' = <<>>
    /\ correct_pickups' = 0
    /\ UNCHANGED <<drawn_base, drawn_quadrant, angle_latex>>

NextScreens ==
    \/ PlayClick
    \/ SettingsClick
    \/ ToggleClick
    \/ BackClick
    \/ Tick
    \/ Acknowledge
    \/ Quit

SpecScreens == Init /\ [][NextScreens]_vars

(* --------------------- generate_foods on its own ---------------------- *)
MaxSnakeInput == 2

Cells == (0..(GRID_WIDTH - 1)) \X (0..(GRID_HEIGHT - 1))

Adjacent(a, b) == Abs(a[1] - b[1]) + Abs(a[2] - b[2]) = 1

RECURSIVE SnakesOfLength(_)
\* chains of n distinct neighbouring cells whose head lies where foods are
\* placed
SnakesOfLength(n) ==
    IF n = 1 THEN {<<c>> : c \in FoodCells}
    ELSE UNION {{Append(s, c) : c \in {d \in Cells : Adjacent(s[n - 1], d)} \ Range(s)}
                : s \in SnakesOfLength(n - 1)}

\* the snakes handed to generate_foods
SnakeInputs == UNION {SnakesOfLength(n) : n \in 1..MaxSnakeInput}

InitFoods ==
    /\ state = "PLAYING"
    /\ settings = DefaultSettings
    /\ checkboxes = DefaultSettings
    /\ NoCall
    /\ snake \in SnakeInputs
    /\ direction = InitialDirection
    /\ lives = START_LIVES
    /\ score = 0
    /\ correct_pickups = 0
    /\ \E q \in generate_question(DefaultSettings) :
         /\ func = q.func
         /\ question_str = q.question_str
         /\ correct_answer = q.correct_answer
    /\ foods = <<>>

\* foods = generate_foods(func, correct_answer, snake)
CallGenerateFoods ==
    /\ foods = <<>>
    /\ \E values \in ExploredValues(func, correct_answer) :
         foods' \in PlaceFoods(values, snake, <<>>)
    /\ UNCHANGED <<state, settings, snake, direction, lives, score, func,
                   question_str, correct_answer, correct_pickups, menu_vars>>

SpecFoods == InitFoods /\ [][CallGenerateFoods]_vars

(* ------------------- generate_question on its own -------------------- *)
\* the values the settings dictionary of main() can take
SettingsValues ==
    [functions : [Range(FUNCS) -> BOOLEAN],
     quadrants : [Range(QUADRANTS) -> BOOLEAN]]

InitQuestion ==
    /\ state = "PLAYING"
    /\ settings \in SettingsValues
    /\ checkboxes = settings
    /\ NoSession
    /\ NoCall

\* func, question_str, correct_answer = generate_question(settings)
CallGenerateQuestion ==
    /\ question_str = ""
    /\ LET e == EnabledSelection(settings)
       IN \E f \in random_choice(e.funcs) :
            \E b \in random_choice(DOMAIN base_vals[f]) :
              \E q \in random_choice(e.quads) :
                /\ drawn_base' = b
                /\ drawn_quadrant' = q
                /\ angle_latex' = get_full_angle_latex(b, q)
                /\ func' = Question(f, b, q).func
                /\ question_str' = Question(f, b, q).question_str
                /\ correct_answer' = Question(f, b, q).correct_answer
    /\ UNCHANGED <<state, settings, snake, direction, lives, score, foods,
                   correct_pickups, checkboxes>>

SpecQuestion == InitQuestion /\ [][CallGenerateQuestion]_vars

(* ------------------- what a step of game_loop does ------------------- *)
\* the head cell a tick computes from the head and the direction it leaves
MovedHead == <<snake[1][1] + direction'[1], snake[1][2] + direction'[2]>>

InGrid(c) == c[1] >= 0 /\ c[1] < GRID_WIDTH /\ c[2] >= 0 /\ c[2] < GRID_HEIGHT

\* one iteration of the loop of game_loop
TickStep == state = "PLAYING" /\ state' \in {"PLAYING", "GAMEOVER"}

\* the new head is outside the grid or on a cell of the snake before the move
CrashStep == TickStep /\ (~InGrid(MovedHead) \/ \E i \in 1..Len(snake) : snake[i] = MovedHead)

MoveStep == TickStep /\ ~CrashStep

CorrectPickup ==
    /\ MoveStep
    /\ FoodEaten(MovedHead, foods) # 0
    /\ foods[FoodEaten(MovedHead, foods)].value = correct_answer

WrongPickup ==
    /\ MoveStep
    /\ FoodEaten(MovedHead, foods) # 0
    /\ foods[FoodEaten(MovedHead, foods)].value # correct_answer

(* ------------------------------- C1 ----------------------------------- *)
\* C1: a movement step that does not crash leaves the length of the snake
\* unchanged when no food or a wrong-answer food is picked up, and adds
\* exactly 1 when the correct-answer food is picked up
C1_LengthPerStep ==
    [][MoveStep =>
         Len(snake') = Len(snake) + (IF CorrectPickup THEN 1 ELSE 0)]_vars

\* a snake that has grown by a correct pickup and kept its length through a
\* wrong pickup
C1_Witness ==
    /\ state = "PLAYING"
    /\ Len(snake) = 2
    /\ score = 1
    /\ lives < START_LIVES

(* ------------------------------- C2 ----------------------------------- *)
Reverse(d) == <<-d[1], -d[2]>>

\* C2: the direction applied in a movement step is never the exact reverse
\* of the direction applied in the previous movement step, whatever key
\* events a tick delivers (a head off the start cell has moved before, and
\* direction is then the direction of the previous step)
C2_NeverReverses ==
    [][(TickStep /\ snake[1] # InitialSnake[1]) =>
         direction' # Reverse(direction)]_vars

(* ------------------------------- C3 ----------------------------------- *)
\* at least FOOD_SPACING cells apart on the x axis or on the y axis
FarApart(a, b) ==
    Abs(a[1] - b[1]) >= FOOD_SPACING \/ Abs(a[2] - b[2]) >= FOOD_SPACING

\* C3 as stated: every food generate_foods returns is at least 3 cells
\* away, on one axis or the other, from every cell of the snake passed to it
C3_FoodsFarFromSnake ==
    foods # <<>> =>
        \A i \in 1..Len(foods) : \A j \in 1..Len(snake) :
            FarApart(foods[i].pos, snake[j])

\* C3 as amended: every food generate_foods returns lies on a cell that is
\* no cell of the snake passed to it
C3_FoodsOffSnake ==
    foods # <<>> =>
        \A i \in 1..Len(foods) : \A j \in 1..Len(snake) :
            foods[i].pos # snake[j]

\* generate_foods has returned a food next to a cell of the snake
C3_Witness ==
    /\ Len(foods) = 4
    /\ Len(snake) = 2
    /\ \E i \in 1..Len(foods) : \E j \in 1..Len(snake) :
         Adjacent(foods[i].pos, snake[j])

(* ------------------------------- C4 ----------------------------------- *)
\* the square of the pixel distance between the centres of two cells
PixelDistance2(a, b) ==
    (a[1] - b[1]) * (a[1] - b[1]) * CELL_SIZE * CELL_SIZE
        + (a[2] - b[2]) * (a[2] - b[2]) * CELL_SIZE * CELL_SIZE

\* the square of the diagonal of one cell
CellDiagonal2 == 2 * CELL_SIZE * CELL_SIZE

\* C4: a step picks a food up only if the centre of some food is closer to
\* the centre of the new head than one cell's diagonal, so a head that is
\* diagonally adjacent to a food does not pick it up
C4_PickupWithinDiagonal ==
    [][(MoveStep /\ (score' # score \/ lives' # lives)) =>
         \E i \in 1..Len(foods) :
             PixelDistance2(MovedHead, foods[i].pos) < CellDiagonal2]_vars

(* ------------------------------- C5 ----------------------------------- *)
\* C5: each entry into Playing starts with 3 lives and score 0; lives drop
\* by exactly 1 on a wrong-answer pickup and change on no other step; the
\* round ends through exhausted lives exactly at the step where lives reach
\* 0, and with no correct pickup that is a GameOver with score 0
C5_Lives ==
    [][/\ (state # "PLAYING" /\ state' = "PLAYING")
            => (lives' = 3 /\ score' = 0)
       /\ TickStep => lives' = lives - (IF WrongPickup THEN 1 ELSE 0)
       /\ state' = "PLAYING" => lives' >= 1
       /\ MoveStep => (state' = "GAMEOVER" <=> lives' = 0)
       /\ (state' = "GAMEOVER" /\ lives' = 0 /\ correct_pickups' = 0)
            => score' = 0]_vars

\* three wrong pickups and no correct one have ended the round
C5_Witness ==
    /\ state = "GAMEOVER"
    /\ lives = 0
    /\ Len(foods) = 1
    /\ correct_pickups = 0
    /\ score = 0

(* ------------------------------- C6 ----------------------------------- *)
\* C6: a step whose new head lies outside the grid or on any cell of the
\* snake before the move, the tail cell included, ends the round and
\* changes neither snake, score, lives nor foods
C6_CrashEndsRound ==
    [][CrashStep =>
         /\ state' = "GAMEOVER"
         /\ UNCHANGED <<snake, score, lives, foods>>]_vars

\* the round has ended on a head that moved onto the tail cell
C6_Witness ==
    /\ state = "GAMEOVER"
    /\ lives > 0
    /\ Len(snake) >= 2
    /\ snake[Len(snake)] = <<snake[1][1] + direction[1], snake[1][2] + direction[2]>>

GoodValues(values, answer) ==
    /\ Len(values) >= 1
    /\ Len(values) <= 4
    /\ \A i, j \in 1..Len(values) : values[i] = values[j] => i = j
    /\ Cardinality({i \in 1..Len(values) : values[i] = answer}) = 1

\* C8: for every function and correct answer of generate_question,
\* generate_foods returns between 1 and 4 foods with pairwise distinct
\* values, exactly one of them the correct answer: of every list of values
\* the call can draw, and of the foods it returned
C8_FoodValues ==
    /\ foods = <<>> =>
         \A values \in FoodValues(func, correct_answer) :
             GoodValues(values, correct_answer)
    /\ foods # <<>> =>
         GoodValues([i \in 1..Len(foods) |-> foods[i].value], correct_answer)

\* generate_foods has returned foods for a cos question whose answer is "0"
C8_Witness ==
    /\ func = "cos"
    /\ correct_answer = "0"
    /\ Len(foods) = 4

(* ------------------------------- C9 ----------------------------------- *)
\* C9: every food on the board keeps 3 cells from the grid edges, lies on
\* no cell of the snake, and any two foods are 3 cells apart on at least
\* one axis, also after wrong-answer foods have been removed
C9_FoodPlacement ==
    state \in {"PLAYING", "GAMEOVER"} =>
        /\ \A i \in 1..Len(foods) :
             /\ foods[i].pos[1] >= 3
             /\ foods[i].pos[1] <= GRID_WIDTH - 4
             /\ foods[i].pos[2] >= 3
             /\ foods[i].pos[2] <= GRID_HEIGHT - 4
             /\ \A j \in 1..Len(snake) : foods[i].pos # snake[j]
        /\ \A i, j \in 1..Len(foods) :
             i # j => FarApart(foods[i].pos, foods[j].pos)

\* two foods are left on the board after two wrong pickups
C9_Witness ==
    /\ state = "PLAYING"
    /\ lives = 1
    /\ Len(foods) = 2

(* ------------------------------- C10 ---------------------------------- *)
\* C10: the score grows by exactly 1 in a step that picks up the
\* correct-answer food and is unchanged by every other step, and the score
\* the GameOver screen shows is the number of correct pickups of the session
C10_Score ==
    [][/\ TickStep => score' = score + (IF CorrectPickup THEN 1 ELSE 0)
       /\ state' = "GAMEOVER" => score' = correct_pickups']_vars

\* a round that ended after one correct pickup
C10_Witness ==
    /\ state = "GAMEOVER"
    /\ score = 1
    /\ correct_pickups = 1

(* ------------------------------- C11 ---------------------------------- *)
\* the list fs without its k-th element
WithoutIndex(fs, k) ==
    [i \in 1..(Len(fs) - 1) |-> IF i < k THEN fs[i] ELSE fs[i + 1]]

\* C11: a wrong-answer pickup removes exactly the food that was picked up:
\* the other foods keep their positions, values and order, and the question,
\* the correct answer and the score are unchanged
C11_WrongPickupRemovesOne ==
    [][WrongPickup =>
         /\ \E k \in 1..Len(foods) :
              /\ food_collision(MovedHead, foods[k].pos)
              /\ foods[k].value # correct_answer
              /\ foods' = WithoutIndex(foods, k)
         /\ UNCHANGED <<func, question_str, correct_answer, score>>]_vars

\* a wrong pickup has removed one food: the correct one and two wrong ones
\* are left, the score is 0 and the round goes on
C11_Witness ==
    /\ state = "PLAYING"
    /\ lives = START_LIVES - 1
    /\ score = 0
    /\ Len(foods) = 3
    /\ Cardinality({i \in 1..Len(foods) : foods[i].value # correct_answer}) = 2
    /\ \A i \in 1..Len(foods) : ~food_collision(snake[1], foods[i].pos)

(* ------------------------------- C12 ---------------------------------- *)
\* the foods on the board whose value is the correct answer of the question
CorrectFoods == {i \in 1..Len(foods) : foods[i].value = correct_answer}

\* C12: at the end of every step of Playing, and on the GameOver screen
\* that follows, exactly one food of the current set carries the correct
\* answer of the current question
C12_OneCorrectFood ==
    state \in {"PLAYING", "GAMEOVER"} => Cardinality(CorrectFoods) = 1

\* after one correct and two wrong pickups the correct food of the second
\* question is still on the board
C12_Witness ==
    /\ state = "PLAYING"
    /\ score = 1
    /\ lives = 1
    /\ Len(foods) = 2
    /\ Cardinality(CorrectFoods) = 1

(* ------------------------------- C13 ---------------------------------- *)
\* no function is enabled or no quadrant is enabled
NothingEnabled(s) ==
    \/ \A f \in Range(FUNCS) : ~s.functions[f]
    \/ \A q \in Range(QUADRANTS) : ~s.quadrants[q]

\* the quadrant-1 questions on sin with their answers
SinFirstQuadrant ==
    {<<"sin(\\frac{\\pi}{6})", "\\frac{1}{2}">>,
     <<"sin(\\frac{\\pi}{4})", "\\frac{\\sqrt{2}}{2}">>,
     <<"sin(\\frac{\\pi}{3})", "\\frac{\\sqrt{3}}{2}">>,
     <<"sin(\\frac{\\pi}{2})", "1">>}

\* C13: generate_question returns a question for every combination of the
\* settings flags, and when no function or no quadrant is enabled it
\* returns sin with a quadrant-1 angle of pi/6, pi/4, pi/3 or pi/2 and the
\* unsigned sin value, whatever flags of the other group are enabled
C13_Fallback ==
    /\ question_str = "" => ENABLED CallGenerateQuestion
    /\ generate_question(settings) # {}
    /\ (question_str # "" /\ NothingEnabled(settings)) =>
         /\ func = "sin"
         /\ drawn_quadrant = 1
         /\ <<question_str, correct_answer>> \in SinFirstQuadrant

\* no function is enabled, the quadrants 2 and 3 are, and the call has
\* returned sin(pi/2) with the answer 1
C13_Witness ==
    /\ \A f \in Range(FUNCS) : ~settings.functions[f]
    /\ \A q \in Range(QUADRANTS) : settings.quadrants[q] <=> q \in {2, 3}
    /\ question_str = "sin(\\frac{\\pi}{2})"
    /\ correct_answer = "1"

(* ------------------------------- C14 ---------------------------------- *)
\* C14: with at least one function and one quadrant enabled, the question
\* generate_question returns uses an enabled function, an enabled quadrant
\* and a base angle the table of that function has; tan never comes with
\* the base angle pi/2
C14_EnabledOnly ==
    (question_str # "" /\ ~NothingEnabled(settings)) =>
        /\ settings.functions[func]
        /\ settings.quadrants[drawn_quadrant]
        /\ drawn_base \in DOMAIN base_vals[func]
        /\ ~(func = "tan" /\ drawn_base = 2)

\* only tan and only quadrant 4 are enabled and the call has returned
\* tan(5pi/3)
C14_Witness ==
    /\ \A f \in Range(FUNCS) : settings.functions[f] <=> f = "tan"
    /\ \A q \in Range(QUADRANTS) : settings.quadrants[q] <=> q = 4
    /\ func = "tan"
    /\ drawn_base = 3
    /\ question_str = "tan(\\frac{5\\pi}{3})"

(* ------------------------------- C15 ---------------------------------- *)
\* the sign table: sin is negative in quadrants 3 and 4, cos in 2 and 3,
\* tan in 2 and 4
Negative(f, q) ==
    \/ f = "sin" /\ q \in {3, 4}
    \/ f = "cos" /\ q \in {2, 3}
    \/ f = "tan" /\ q \in {2, 4}

\* C15: for every function, base angle of its table and quadrant,
\* get_adjusted_answer returns the tabulated magnitude, with a leading "-"
\* exactly when the sign table says negative, except that the magnitude "0"
\* is returned as "0" in every quadrant
C15_AdjustedAnswer ==
    question_str # "" =>
        LET magnitude == base_vals[func][drawn_base]
        IN correct_answer =
             IF magnitude = "0" THEN "0"
             ELSE IF Negative(func, drawn_quadrant) THEN "-" \o magnitude
             ELSE magnitude

\* cos at the base angle pi/2 in quadrant 3, where cos is negative, has
\* returned "0"
C15_Witness ==
    /\ func = "cos"
    /\ drawn_base = 2
    /\ drawn_quadrant = 3
    /\ correct_answer = "0"

(* ------------------------------- C16 ---------------------------------- *)
\* the numerator of the angle of quadrant q over the denominator den
Numerator(den, q) ==
    CASE q = 1 -> 1
      [] q = 2 -> den - 1
      [] q = 3 -> den + 1
      [] q = 4 -> 2 * den - 1

\* C16: get_full_angle_latex returns pi/2 for the base angle pi/2 in
\* quadrants 1 and 2 and 3pi/2 in quadrants 3 and 4; for the base angle
\* pi/den with den 6, 4 or 3 it returns n pi/den with n = 1, den - 1,
\* den + 1, 2 den - 1 in quadrants 1, 2, 3, 4, without the coefficient
\* when n = 1
C16_FullAngle ==
    question_str # "" =>
        angle_latex =
            IF drawn_base = 2
            THEN IF drawn_quadrant \in {1, 2}
                 THEN "\\frac{\\pi}{2}" ELSE "\\frac{3\\pi}{2}"
            ELSE LET n == Numerator(drawn_base, drawn_quadrant)
                 IN "\\frac{" \o (IF n = 1 THEN "" ELSE ToString(n)) \o "\\pi}{"
                        \o ToString(drawn_base) \o "}"

\* the base angle pi/6 in quadrant 4 has been rendered as 11pi/6
C16_Witness ==
    /\ drawn_base = 6
    /\ drawn_quadrant = 4
    /\ angle_latex = "\\frac{11\\pi}{6}"

(* ------------------------------- C17 ---------------------------------- *)
\* the changes of screen the claim lists
ScreenChanges ==
    {<<"MENU", "PLAYING">>, <<"MENU", "SETTINGS">>, <<"SETTINGS", "MENU">>,
     <<"PLAYING", "GAMEOVER">>, <<"GAMEOVER", "MENU">>}

\* C17: the machine starts in Menu; a step that changes the screen makes
\* one of the five listed changes or quits the process; Playing is left for
\* GameOver only by a crash or by the last life; and on every screen the
\* actions that leave it or continue it are possible
C17_StateMachine ==
    /\ state = "MENU"
    /\ [][state' # state =>
            /\ <<state, state'>> \in ScreenChanges \/ state' = "QUIT"
            /\ (state = "PLAYING" /\ state' = "GAMEOVER")
                 => (CrashStep \/ lives' = 0)]_vars
    /\ [](/\ state = "MENU" => (ENABLED PlayClick /\ ENABLED SettingsClick)
          /\ state = "SETTINGS" => ENABLED BackClick
          /\ state = "PLAYING" => ENABLED Tick
          /\ state = "GAMEOVER" => ENABLED Acknowledge
          /\ state \in {"MENU", "SETTINGS", "PLAYING", "GAMEOVER", "QUIT"})

\* a session played with settings changed in the settings menu has ended
\* on the GameOver screen
C17_Witness ==
    /\ state = "GAMEOVER"
    /\ settings # DefaultSettings
    /\ checkboxes = settings

(* ------------------------------- C18 ---------------------------------- *)
\* the snakes handed to generate_foods by the correct pickups the next tick
\* can make
SnakesAtNextPickup ==
    {<<h>> \o snake :
        h \in {c \in {<<snake[1][1] + d[1], snake[1][2] + d[2]>> :
                        d \in ProcessEvents(direction, MaxKeys)} :
                  /\ ~HitsWall(c)
                  /\ ~HitsSelf(c, snake)
                  /\ FoodEaten(c, foods) # 0
                  /\ foods[FoodEaten(c, foods)].value = correct_answer}}

\* C18: in every state of Playing, the call of generate_foods that a
\* correct pickup of the next tick makes can return: some draws of its
\* placement loop find an acceptable cell for each food of the batch (the
\* least the claim needs: a call no draws let return retries forever)
C18_PlacementCanFinish ==
    state = "PLAYING" =>
        \A grown \in SnakesAtNextPickup :
            \A round \in ExploredRounds(settings) :
                PlaceFoods(round.values, grown, <<>>) # {}

(* ------------------------------- C19 ---------------------------------- *)
\* the foods on the board within pickup range of a head on the cell c
InRange(c) == {i \in 1..Len(foods) : food_collision(c, foods[i].pos)}

\* C19: in every state of Playing, every cell of the grid is within pickup
\* range of at most one food of the current set, so the order of the food
\* list never decides which food a step picks up
C19_OneFoodInRange ==
    state = "PLAYING" => \A c \in Cells : Cardinality(InRange(c)) <= 1

\* the foods generated by a correct pickup include one within pickup range
\* of the cell the head is on, and no second one
C19_Witness ==
    /\ state = "PLAYING"
    /\ score = 1
    /\ Len(foods) = 4
    /\ Cardinality(InRange(snake[1])) = 1

(* ------------------------------- C20 ---------------------------------- *)
\* C20: at the end of every step of a session, and on the GameOver screen
\* that ends it, the snake has score + 1 cells
C20_LengthIsScorePlusOne ==
    state \in {"PLAYING", "GAMEOVER"} => Len(snake) = score + 1

\* a snake of two cells with score 1, after two wrong pickups that left
\* its length alone
C20_Witness ==
    /\ state = "PLAYING"
    /\ score = 1
    /\ lives = START_LIVES - 2
    /\ Len(snake) = 2
    /\ snake[1] # InitialSnake[1]

(* ------------------------------- C21 ---------------------------------- *)
\* the foods on the board whose value is not the correct answer
WrongFoods == {i \in 1..Len(foods) : foods[i].value # correct_answer}

\* C21: in every state of Playing the board holds at least lives + 1 and at
\* most 4 foods, so the food set is never empty and at least one
\* wrong-answer food is left beside the correct one
C21_FoodCount ==
    state = "PLAYING" =>
        /\ Len(foods) >= lives + 1
        /\ Len(foods) <= 4
        /\ foods # <<>>
        /\ WrongFoods # {}

\* the last life with two foods left: one more wrong pickup ends the round
\* before the correct food would be alone
C21_Witness ==
    /\ state = "PLAYING"
    /\ score = 0
    /\ lives = 1
    /\ Len(foods) = lives + 1
    /\ Cardinality(WrongFoods) = 1

====
